---- MODULE Spec2Model ----
(***************************************************************************)
(* Model of app/main.py: a poller that watches one YouTube channel and     *)
(* relays the newest video to a Telegram channel.                          *)
(*                                                                         *)
(* The process has a main thread (create_app: install the signal handlers, *)
(* start the scheduler, run one priming check_video_task, then serve), one *)
(* scheduler job thread (max_instances=1) running check_video_task on each *)
(* tick, and the signal handler graceful_shutdown, which Python runs on    *)
(* the main thread, suspending whatever the main thread was doing.         *)
(* check_video_task is modelled statement by statement so that crashes,    *)
(* the handler and the other thread can interleave wherever the code       *)
(* allows it.  The world (the channel's videos, Telegram, the file system) *)
(* is nondeterministic.                                                    *)
(***************************************************************************)
EXTENDS Integers, FiniteSets, TLC

\* ---------------------------------------------------------------- bounds
\* Number of videos that are ever published on the watched channel.
MaxVideos == 2

\* ------------------------------------------------------------- constants
Ids == 1..MaxVideos
\* Python's None for last_video_id.
None == 0
Threads == {"main", "job"}

VARIABLES
    proc,       \* "up": the process runs; "down": it does not; "failed": it
                \* does not, and its last start ended in an exception at import
    state,      \* state_manager.state, the in-memory dict
    file,       \* contents of bot_state.json
    live,       \* ids of the videos currently on the channel (larger = newer)
    published,  \* number of videos published so far
    lock,       \* holder of the module-level threading.Lock, or "none"
    pc,         \* per thread: position in create_app / check_video_task
    resp,       \* per thread: what get_latest_video returned in this cycle
    cand,       \* per thread: current_id (and whether the item is stale)
    sendres,    \* per thread: what send_alert returned in this cycle
    saveres,    \* per thread: how the cycle's last save_state ended
    hpc,        \* position of graceful_shutdown on the main thread, or "none"
    sched,      \* BackgroundScheduler: "init" | "running" | "stopped"
    alerts,     \* per video on the channel: messages Telegram accepted for it
                \* (send_alert -> True): 0, 1, or 2 for "more than one"
    \* history variables (observers only, never read by the program)
    entry,      \* per thread: state as it was when the cycle took the lock
    fentry,     \* per thread: the file as it was when the cycle took the lock
    nsend,      \* per thread: send_alert calls made by the cycle
    nsave,      \* per thread: save_state calls made by the cycle
    nmut,       \* per thread: assignments to state made by the cycle
    dirty,      \* the shutdown handler touched the file since the lock was taken
    announced,  \* the id last alerted, while it has been the newest ever since,
                \* and whether the process was restarted since that alert
    lastFailed, \* the id whose send_alert last returned False in this run,
                \* while it is the newest and has not been sent since
    savefailed  \* a save_state call has failed since the state was loaded

vars == <<proc, state, file, live, published, lock, pc, resp, cand, sendres,
          saveres, hpc, sched, alerts, entry, fentry, nsend, nsave, nmut, dirty,
          announced, lastFailed, savefailed>>

\* ------------------------------------------------------------ data model
MkState(id, init) == [last_video_id |-> id, initialized |-> init]

\* {'last_video_id': None, 'initialized': False}
DefaultState == MkState(None, FALSE)

\* The file: valid JSON holding a state dict, not valid JSON, or absent.
ValidFile(s) == [kind |-> "valid", data |-> s]
CorruptFile == [kind |-> "corrupt", data |-> DefaultState]
MissingFile == [kind |-> "missing", data |-> DefaultState]

NoCand == [id |-> None, stale |-> FALSE]

NoAnn == [id |-> None, restarted |-> FALSE]

\* The alert count of an id, one more alert on: 0, 1, "more than one".
Counted(n) == IF n < 2 THEN n + 1 ELSE n

Max(S) == CHOOSE x \in S : \A y \in S : y <= x

Newest == IF live = {} THEN None ELSE Max(live)

\* ----------------------------------------------------------- StateManager
\* _load_state: the parsed file, or the default state when the file is
\* missing or is not valid JSON.
LoadState(f) == IF f.kind = "valid" THEN f.data ELSE DefaultState

\* _load_state calls _create_default_state when the file is missing or is not
\* valid JSON, which writes the default state to the file.
FileAfterLoad(f) == IF f.kind = "valid" THEN f ELSE ValidFile(DefaultState)

\* _load_state, lines 41-42: rd is whether open and f.read() succeed on an
\* existing file.  When they do and the content is not a valid record, or when
\* the file is missing, the except clauses of lines 45-50 call
\* _create_default_state; any other exception (line 51) returns the default
\* state and leaves the file alone.
NeedsDefault(f, rd) == f.kind = "missing" \/ (rd /\ f.kind = "corrupt")

\* _create_default_state, lines 57-58: wr is how far its write gets, "ok",
\* "open_failed" (open(..., 'w') raises) or "write_failed" (json.dump raises
\* after the file was truncated).
WriteOutcomes == {"ok", "open_failed", "write_failed"}

FileAfterCreate(f, wr) ==
    IF wr = "ok" THEN FileAfterLoad(f)
    ELSE IF wr = "open_failed" THEN f ELSE CorruptFile

\* _create_default_state is called inside an except clause of _load_state: an
\* exception of its write is not caught by the `except Exception` of line 51,
\* which guards the try block only, and leaves StateManager.__init__.
LoadRaises(f, rd, wr) == NeedsDefault(f, rd) /\ wr # "ok"

\* The state _load_state returns when it returns.
Loaded(f, rd) == IF rd THEN LoadState(f) ELSE DefaultState

\* save_state, open(STATE_FILE, 'w'): truncates the file (an empty file is
\* not valid JSON); when open raises, the file is as it was.
FileAfterOpen(ok, f) == IF ok THEN CorruptFile ELSE f

\* save_state, json.dump and close: the file holds the state; when the write
\* raises, the file stays as open left it.
FileAfterDump(ok, f, s) == IF ok THEN ValidFile(s) ELSE f

\* --------------------------------------------------- check_video_task logic
\* Mutant of CanAcquire: check_video_task without the lock.
CanAcquire_NoLock(l) == TRUE

\* `with lock:` can be entered only while nobody holds the lock.
CanAcquire(l) == l = "none"

\* `if not response: return`
AfterFetch(r) == IF r = "none" THEN "exit" ELSE "parse"

\* Mutant of Decide: the `if not state['initialized']` branch is missing, so
\* a cold start alerts like any other cycle.
Decide_NoBaseline(s, r, id) ==
    IF r # "ok" THEN "exit"
    ELSE IF id # s.last_video_id THEN "send"
    ELSE "exit"

\* Mutant of Decide: the comparison with last_video_id is missing, so every
\* cycle of an initialized state alerts.
Decide_NoCompare(s, r, id) ==
    IF r # "ok" THEN "exit"
    ELSE IF ~s.initialized THEN "init"
    ELSE "send"

\* Mutant of Decide: a first item without the expected fields is not
\* rejected: the cycle goes on with current_id = None.
Decide_NoKeyCheck(s, r, id) ==
    IF r = "empty" THEN "exit"
    ELSE IF ~s.initialized THEN "init"
    ELSE IF id # s.last_video_id THEN "send"
    ELSE "exit"

\* Lines 161-196: where the cycle goes once it has the response r with the
\* newest id `id`, given the in-memory state s.
Decide(s, r, id) ==
    IF r # "ok" THEN "exit"                    \* no items, or KeyError
    ELSE IF ~s.initialized THEN "init"         \* baseline, no alert
    ELSE IF id # s.last_video_id THEN "send"   \* new video
    ELSE "exit"                                \* nothing new

\* Mutant of AfterSend: the state is updated whatever send_alert returned.
AfterSend_Always(ok) == "commit"

\* `if TelegramService.send_alert(video_data):`
AfterSend(ok) == IF ok THEN "commit" ELSE "exit"

\* state.update(last_video_id=current_id, initialized=True)
InitUpdate(s, id) == MkState(id, TRUE)

\* state['last_video_id'] = current_id
CommitUpdate(s, id) == [s EXCEPT !.last_video_id = id]

\* What get_latest_video can return: None (HttpError or any exception), a
\* response with no items, a response whose first item lacks a field, or a
\* response whose first item is the newest video of the channel.
RespKinds == {"none", "empty", "malformed", "ok"}

Locked == {"fetch", "parse", "init", "send", "commit", "save_open",
           "save_write", "exit"}
InCycle == Locked \cup {"acquire"}

\* A thread can take a step: the process runs, and the main thread is not
\* suspended under the signal handler.
Runnable(t) == proc = "up" /\ (t = "main" => hpc = "none")

Upd(f, t, v) == [f EXCEPT ![t] = v]

\* Where a thread is once check_video_task has returned.
AfterCycle(t) == IF t = "main" THEN "serving" ELSE "idle"

\* The per-cycle observers of thread t, cleared.
ClearHist(t) ==
    /\ entry' = Upd(entry, t, DefaultState)
    /\ fentry' = Upd(fentry, t, MissingFile)
    /\ nsend' = Upd(nsend, t, 0)
    /\ nsave' = Upd(nsave, t, 0)
    /\ nmut' = Upd(nmut, t, 0)

ClearLocals(t) ==
    /\ resp' = Upd(resp, t, "none")
    /\ cand' = Upd(cand, t, NoCand)
    /\ sendres' = Upd(sendres, t, "none")
    /\ saveres' = Upd(saveres, t, "none")

\* ------------------------------------------- check_video_task, step by step
\* Each step is written without the handler's position, so that the same
\* step can be taken by the thread itself or forced by an exception raised
\* in the signal handler.

\* `with lock:` (line 151)
AcquireStep(t) ==
    /\ pc[t] = "acquire"
    /\ CanAcquire(lock)
    /\ lock' = t
    /\ pc' = Upd(pc, t, "fetch")
    /\ entry' = Upd(entry, t, state)
    /\ fentry' = Upd(fentry, t, file)
    /\ dirty' = FALSE
    /\ UNCHANGED <<proc, state, file, live, published, resp, cand, sendres,
                   saveres, sched, alerts, nsend, nsave, nmut,
                   announced,
                   lastFailed, savefailed>>

\* response = YouTubeService.get_latest_video(); `if not response: return`
FetchStep(t, r, st) ==
    /\ pc[t] = "fetch"
    /\ r = "ok" => live # {}
    /\ resp' = Upd(resp, t, r)
    /\ cand' = Upd(cand, t, IF r = "ok" THEN [id |-> Newest, stale |-> st]
                                        ELSE NoCand)
    /\ pc' = Upd(pc, t, AfterFetch(r))
    /\ UNCHANGED <<proc, state, file, live, published, lock, sendres, saveres,
                   sched, alerts, entry, fentry, nsend, nsave, nmut, dirty, announced,
                   lastFailed, savefailed>>

\* Lines 161-185: items, current_id, state = state_manager.state, the branch.
ParseStep(t) ==
    /\ pc[t] = "parse"
    /\ pc' = Upd(pc, t, Decide(state, resp[t], cand[t].id))
    /\ UNCHANGED <<proc, state, file, live, published, lock, resp, cand,
                   sendres, saveres, sched, alerts, entry, fentry, nsend,
                   nsave, nmut, dirty, announced,
                   lastFailed, savefailed>>

\* Line 181: state.update(last_video_id=current_id, initialized=True)
InitStep(t) ==
    /\ pc[t] = "init"
    /\ state' = InitUpdate(state, cand[t].id)
    /\ nmut' = Upd(nmut, t, nmut[t] + 1)
    /\ pc' = Upd(pc, t, "save_open")
    /\ UNCHANGED <<proc, file, live, published, lock, resp, cand, sendres,
                   saveres, sched, alerts, entry, fentry, nsend, nsave, dirty, announced,
                   lastFailed, savefailed>>

\* Line 189: TelegramService.send_alert(video_data) returns ok.
SendStep(t, ok) ==
    /\ pc[t] = "send"
    /\ alerts' = IF ok THEN [alerts EXCEPT ![cand[t].id] = Counted(@)]
                        ELSE alerts
    /\ nsend' = Upd(nsend, t, nsend[t] + 1)
    /\ sendres' = Upd(sendres, t, IF ok THEN "ok" ELSE "fail")
    /\ pc' = Upd(pc, t, AfterSend(ok))
    /\ announced' = IF ~ok THEN announced
                    ELSE IF cand[t].id # Newest THEN NoAnn
                    ELSE IF announced.id = cand[t].id THEN announced
                    ELSE [id |-> cand[t].id, restarted |-> FALSE]
    /\ lastFailed' = IF ok THEN lastFailed
                     ELSE IF cand[t].id = Newest THEN cand[t].id ELSE None
    /\ UNCHANGED <<proc, state, file, live, published, lock, resp, cand,
                   saveres, sched, entry, fentry, nsave, nmut, dirty,
                   savefailed>>

\* Line 190: state['last_video_id'] = current_id
CommitStep(t) ==
    /\ pc[t] = "commit"
    /\ state' = CommitUpdate(state, cand[t].id)
    /\ nmut' = Upd(nmut, t, nmut[t] + 1)
    /\ pc' = Upd(pc, t, "save_open")
    /\ UNCHANGED <<proc, file, live, published, lock, resp, cand, sendres,
                   saveres, sched, alerts, entry, fentry, nsend, nsave, dirty, announced,
                   lastFailed, savefailed>>

\* save_state, line 63: open(Config.STATE_FILE, 'w'); an exception is logged
\* and save_state returns.
SaveOpenStep(t, ok) ==
    /\ pc[t] = "save_open"
    /\ file' = FileAfterOpen(ok, file)
    /\ nsave' = Upd(nsave, t, nsave[t] + 1)
    /\ saveres' = Upd(saveres, t, IF ok THEN saveres[t] ELSE "open_failed")
    /\ pc' = Upd(pc, t, IF ok THEN "save_write" ELSE "exit")
    /\ savefailed' = (savefailed \/ ~ok)
    /\ UNCHANGED <<proc, state, live, published, lock, resp, cand, sendres,
                   sched, alerts, entry, fentry, nsend, nmut, dirty,
                   announced, lastFailed>>

\* save_state, line 64: json.dump(self.state, f) and the close of the file.
SaveWriteStep(t, ok) ==
    /\ pc[t] = "save_write"
    /\ file' = FileAfterDump(ok, file, state)
    /\ saveres' = Upd(saveres, t, IF ok THEN "ok" ELSE "write_failed")
    /\ pc' = Upd(pc, t, "exit")
    /\ savefailed' = (savefailed \/ ~ok)
    /\ UNCHANGED <<proc, state, live, published, lock, resp, cand, sendres,
                   sched, alerts, entry, fentry, nsend, nsave, nmut, dirty,
                   announced, lastFailed>>

\* Leaving the `with lock:` block, by return or by an exception: the lock is
\* released if this thread holds it, and check_video_task is over.
LeaveStep(t) ==
    /\ pc[t] \in InCycle
    /\ lock' = IF pc[t] \in Locked THEN "none" ELSE lock
    /\ pc' = Upd(pc, t, AfterCycle(t))
    /\ ClearHist(t)
    /\ ClearLocals(t)
    /\ lastFailed' = IF sendres[t] = "ok" THEN None ELSE lastFailed
    /\ UNCHANGED <<proc, state, file, live, published, sched, alerts, dirty,
                   announced, savefailed>>

Acquire(t) == Runnable(t) /\ AcquireStep(t) /\ UNCHANGED hpc

Fetch(t) ==
    /\ Runnable(t)
    /\ \E r \in RespKinds, st \in BOOLEAN :
          /\ r # "ok" => ~st
          /\ FetchStep(t, r, st)
    /\ UNCHANGED hpc

Parse(t) == Runnable(t) /\ ParseStep(t) /\ UNCHANGED hpc

InitBaseline(t) == Runnable(t) /\ InitStep(t) /\ UNCHANGED hpc

Send(t) == Runnable(t) /\ (\E ok \in BOOLEAN : SendStep(t, ok)) /\ UNCHANGED hpc

Commit(t) == Runnable(t) /\ CommitStep(t) /\ UNCHANGED hpc

SaveOpen(t) ==
    Runnable(t) /\ (\E ok \in BOOLEAN : SaveOpenStep(t, ok)) /\ UNCHANGED hpc

SaveWrite(t) ==
    Runnable(t) /\ (\E ok \in BOOLEAN : SaveWriteStep(t, ok)) /\ UNCHANGED hpc

Return(t) == Runnable(t) /\ pc[t] = "exit" /\ LeaveStep(t) /\ UNCHANGED hpc

\* ------------------------------------------------------------- create_app
\* Lines 215-216: signal.signal(SIGTERM / SIGINT, graceful_shutdown)
InstallHandlers ==
    /\ Runnable("main")
    /\ pc["main"] = "install"
    /\ pc' = Upd(pc, "main", "sched_start")
    /\ UNCHANGED <<proc, state, file, live, published, lock, resp, cand,
                   sendres, saveres, hpc, sched, alerts, entry, fentry, nsend,
                   nsave, nmut, dirty, announced,
                   lastFailed, savefailed>>

\* Lines 218-223: `if not scheduler.running: scheduler.start()`, then the
\* priming call of check_video_task.
StartScheduler ==
    /\ Runnable("main")
    /\ pc["main"] = "sched_start"
    /\ sched' = IF sched # "running" THEN "running" ELSE sched
    /\ pc' = Upd(pc, "main", "acquire")
    /\ UNCHANGED <<proc, state, file, live, published, lock, resp, cand,
                   sendres, saveres, hpc, alerts, entry, fentry, nsend, nsave,
                   nmut, dirty, announced,
                   lastFailed, savefailed>>

\* --------------------------------------------------------------- scheduler
\* The interval trigger fires and no instance of the job is running: the
\* executor starts check_video_task on a pool thread.
TickRun ==
    /\ proc = "up"
    /\ sched = "running"
    /\ pc["job"] = "idle"
    /\ pc' = Upd(pc, "job", "acquire")
    /\ UNCHANGED <<proc, state, file, live, published, lock, resp, cand,
                   sendres, saveres, hpc, sched, alerts, entry, fentry, nsend,
                   nsave, nmut, dirty, announced,
                   lastFailed, savefailed>>

\* The trigger fires while the job's one instance is still running
\* (max_instances=1): the run is skipped.
TickDrop ==
    /\ proc = "up"
    /\ sched = "running"
    /\ pc["job"] # "idle"
    /\ UNCHANGED vars

\* ------------------------------------------------------- graceful_shutdown
\* SIGTERM or SIGINT arrives once the handlers are installed: Python runs
\* graceful_shutdown on the main thread, on top of what that thread is doing.
Signal ==
    /\ proc = "up"
    /\ hpc = "none"
    /\ pc["main"] # "install"
    /\ hpc' = "shutdown"
    /\ UNCHANGED <<proc, state, file, live, published, lock, pc, resp, cand,
                   sendres, saveres, sched, alerts, entry, fentry, nsend, nsave,
                   nmut, dirty, announced,
                   lastFailed, savefailed>>

\* Line 210: scheduler.shutdown() on a running scheduler: no more ticks, then
\* wait for the running job.
HandlerShutdown ==
    /\ proc = "up"
    /\ hpc = "shutdown"
    /\ sched = "running"
    /\ sched' = "stopped"
    /\ hpc' = "wait"
    /\ UNCHANGED <<proc, state, file, live, published, lock, pc, resp, cand,
                   sendres, saveres, alerts, entry, fentry, nsend, nsave, nmut,
                   dirty, announced,
                   lastFailed, savefailed>>

\* scheduler.shutdown(wait=True) returns once the job thread has finished.
HandlerWait ==
    /\ proc = "up"
    /\ hpc = "wait"
    /\ pc["job"] = "idle"
    /\ hpc' = "save_open"
    /\ UNCHANGED <<proc, state, file, live, published, lock, pc, resp, cand,
                   sendres, saveres, sched, alerts, entry, fentry, nsend, nsave,
                   nmut, dirty, announced,
                   lastFailed, savefailed>>

\* Line 211: state_manager.save_state(), the open.
HandlerSaveOpen ==
    /\ proc = "up"
    /\ hpc = "save_open"
    /\ \E ok \in BOOLEAN :
          /\ file' = FileAfterOpen(ok, file)
          /\ hpc' = IF ok THEN "save_write" ELSE "none"
          /\ savefailed' = (savefailed \/ ~ok)
    /\ dirty' = (lock # "none")
    /\ UNCHANGED <<proc, state, live, published, lock, pc, resp, cand, sendres,
                   saveres, sched, alerts, entry, fentry, nsend, nsave, nmut,
                   announced, lastFailed>>

\* Line 211: state_manager.save_state(), the dump; then the handler returns.
HandlerSaveWrite ==
    /\ proc = "up"
    /\ hpc = "save_write"
    /\ \E ok \in BOOLEAN :
          /\ file' = FileAfterDump(ok, file, state)
          /\ savefailed' = (savefailed \/ ~ok)
    /\ hpc' = "none"
    /\ dirty' = (lock # "none")
    /\ UNCHANGED <<proc, state, live, published, lock, pc, resp, cand, sendres,
                   saveres, sched, alerts, entry, fentry, nsend, nsave, nmut,
                   announced, lastFailed>>

\* The process is gone: everything in memory is lost, the file and the world
\* stay.
Down ==
    /\ proc' = "down"
    /\ state' = DefaultState
    /\ lock' = "none"
    /\ pc' = [t \in Threads |-> AfterCycle(t)]
    /\ resp' = [t \in Threads |-> "none"]
    /\ cand' = [t \in Threads |-> NoCand]
    /\ sendres' = [t \in Threads |-> "none"]
    /\ saveres' = [t \in Threads |-> "none"]
    /\ hpc' = "none"
    /\ sched' = "init"
    /\ entry' = [t \in Threads |-> DefaultState]
    /\ fentry' = [t \in Threads |-> MissingFile]
    /\ nsend' = [t \in Threads |-> 0]
    /\ nsave' = [t \in Threads |-> 0]
    /\ nmut' = [t \in Threads |-> 0]
    /\ dirty' = FALSE
    /\ lastFailed' = None
    /\ savefailed' = FALSE
    /\ UNCHANGED <<file, live, published, alerts, announced>>

\* Line 210 on a scheduler that is not running (never started, or already
\* shut down by an earlier signal): scheduler.shutdown() raises
\* SchedulerNotRunningError out of the handler, into what the main thread
\* was doing.  Outside check_video_task nothing catches it and the process
\* ends.  Inside, it leaves the `with lock:` block and create_app's
\* `except Exception` catches it, unless the main thread was inside one of
\* the try blocks of get_latest_video, send_alert or save_state, which
\* swallow it as that call's failure.
HandlerRaise ==
    /\ proc = "up"
    /\ hpc = "shutdown"
    /\ sched # "running"
    /\ \/ pc["main"] \in {"sched_start", "serving"} /\ Down
       \/ pc["main"] \in InCycle \ {"save_write"}
             /\ LeaveStep("main") /\ hpc' = "none"
       \/ FetchStep("main", "none", FALSE) /\ hpc' = "none"
       \/ SendStep("main", FALSE) /\ hpc' = "none"
       \/ SaveOpenStep("main", FALSE) /\ hpc' = "none"
       \/ SaveWriteStep("main", FALSE) /\ hpc' = "none"

\* GET /health, lines 71-73, served once create_app has returned: reads
\* state_manager.state and writes nothing.
HealthCheck ==
    /\ proc = "up"
    /\ pc["main"] = "serving"
    /\ hpc = "none"
    /\ UNCHANGED vars

\* ------------------------------------------------------ crash and restart
\* The process is killed (SIGKILL, the OOM killer, a signal before the
\* handlers are installed) at any point.  What the process has written stays
\* in the file: the loss of unsynced data on a machine crash is not modelled.
Crash == proc = "up" /\ Down

\* The process is started: module import runs `state_manager =
\* StateManager()` (line 69), which loads the file.  When _load_state raises,
\* the import fails and the process ends before create_app.
Restart ==
    /\ proc # "up"
    /\ \E rd \in BOOLEAN, wr \in WriteOutcomes :
          /\ ~rd => file.kind # "missing"
          /\ ~NeedsDefault(file, rd) => wr = "ok"
          /\ IF LoadRaises(file, rd, wr)
             THEN /\ proc' = "failed"
                  /\ state' = DefaultState
                  /\ pc' = pc
             ELSE /\ proc' = "up"
                  /\ state' = Loaded(file, rd)
                  /\ pc' = [pc EXCEPT !["main"] = "install"]
          /\ file' = IF NeedsDefault(file, rd)
                     THEN FileAfterCreate(file, wr) ELSE file
    /\ announced' = IF announced.id # None
                    THEN [announced EXCEPT !.restarted = TRUE] ELSE announced
    /\ UNCHANGED <<live, published, lock, resp, cand, sendres, saveres, hpc,
                   sched, alerts, entry, fentry, nsend, nsave, nmut, dirty,
                   lastFailed, savefailed>>

\* ---------------------------------------------------------------- the world
\* A new video is published on the channel: it is the newest.
Publish ==
    /\ published < MaxVideos
    /\ published' = published + 1
    /\ live' = live \cup {published + 1}
    /\ announced' = NoAnn
    /\ lastFailed' = None
    /\ UNCHANGED <<proc, state, file, lock, pc, resp, cand, sendres, saveres,
                   hpc, sched, alerts, entry, fentry, nsend, nsave, nmut, dirty,
                   savefailed>>

\* The newest video is removed from the channel (deleted or made private):
\* the one before it is the newest again.
Remove ==
    \E i \in live :
        /\ i = Newest
        /\ live' = live \ {i}
        /\ alerts' = [alerts EXCEPT ![i] = 0]
        /\ announced' = NoAnn
        /\ lastFailed' = None
        /\ UNCHANGED <<proc, state, file, published, lock, pc, resp, cand,
                       sendres, saveres, hpc, sched, entry, fentry,
                       nsend, nsave, nmut, dirty, savefailed>>

\* ------------------------------------------------------------ specification
\* The files a first start can find: none, one that is not valid JSON, or a
\* state written by an earlier run.
InitFiles(n) ==
    {MissingFile, CorruptFile, ValidFile(DefaultState)}
        \cup {ValidFile(MkState(i, TRUE)) : i \in 1..n}

\* The process has not been started yet: the state file is whatever an
\* earlier run or the operator left, and Restart is the first start.
Init ==
    /\ proc = "down"
    /\ published \in {0, 1}
    /\ live = 1..published
    /\ file \in InitFiles(published)
    /\ state = DefaultState
    /\ lock = "none"
    /\ pc = [t \in Threads |-> AfterCycle(t)]
    /\ resp = [t \in Threads |-> "none"]
    /\ cand = [t \in Threads |-> NoCand]
    /\ sendres = [t \in Threads |-> "none"]
    /\ saveres = [t \in Threads |-> "none"]
    /\ hpc = "none"
    /\ sched = "init"
    /\ alerts = [i \in Ids |-> 0]
    /\ entry = [t \in Threads |-> DefaultState]
    /\ fentry = [t \in Threads |-> MissingFile]
    /\ nsend = [t \in Threads |-> 0]
    /\ nsave = [t \in Threads |-> 0]
    /\ nmut = [t \in Threads |-> 0]
    /\ dirty = FALSE
    /\ announced = NoAnn
    /\ lastFailed = None
    /\ savefailed = FALSE

Next ==
    \/ \E t \in Threads : Acquire(t)
    \/ \E t \in Threads : Fetch(t)
    \/ \E t \in Threads : Parse(t)
    \/ \E t \in Threads : InitBaseline(t)
    \/ \E t \in Threads : Send(t)
    \/ \E t \in Threads : Commit(t)
    \/ \E t \in Threads : SaveOpen(t)
    \/ \E t \in Threads : SaveWrite(t)
    \/ \E t \in Threads : Return(t)
    \/ InstallHandlers
    \/ StartScheduler
    \/ TickRun
    \/ TickDrop
    \/ Signal
    \/ HandlerShutdown
    \/ HandlerWait
    \/ HandlerSaveOpen
    \/ HandlerSaveWrite
    \/ HandlerRaise
    \/ HealthCheck
    \/ Crash
    \/ Restart
    \/ Publish
    \/ Remove

Spec == Init /\ [][Next]_vars

\* -------------------------------------------------------------- scheduling
\* A step of check_video_task by thread t.
CycleStep(t) ==
    \/ Acquire(t) \/ Fetch(t) \/ Parse(t) \/ InitBaseline(t) \/ Send(t)
    \/ Commit(t) \/ SaveOpen(t) \/ SaveWrite(t) \/ Return(t)

\* A step of create_app before the priming call.
StartupStep == InstallHandlers \/ StartScheduler

\* A step of graceful_shutdown.
HandlerStep ==
    \/ HandlerShutdown \/ HandlerWait \/ HandlerSaveOpen \/ HandlerSaveWrite
    \/ HandlerRaise

\* get_latest_video returns the newest video of the channel.
FetchOk(t) ==
    /\ Runnable(t)
    /\ \E st \in BOOLEAN : FetchStep(t, "ok", st)
    /\ UNCHANGED hpc

\* send_alert returns True.
SendOk(t) == Runnable(t) /\ SendStep(t, TRUE) /\ UNCHANGED hpc

\* The threads of the process run, the interval trigger of lines 198-206
\* fires while the scheduler runs and the job is not running, and the two
\* services do not fail for ever: a fetch and a send that the job tries again
\* and again succeed in the end.
Fairness ==
    /\ \A t \in Threads : WF_vars(CycleStep(t))
    /\ WF_vars(StartupStep)
    /\ WF_vars(TickRun)
    /\ SF_vars(FetchOk("job"))
    /\ SF_vars(SendOk("job"))

\* All behaviours, with fair scheduling; the handler runs to its end too.
FairSpec == Spec /\ Fairness /\ WF_vars(HandlerStep)

\* The steps of a process that is started and then left to run: no signal is
\* delivered and the process is not killed.
NextRun ==
    \/ \E t \in Threads : CycleStep(t)
    \/ StartupStep
    \/ TickRun
    \/ TickDrop
    \/ HealthCheck
    \/ Restart
    \/ Publish
    \/ Remove

RunSpec == Init /\ [][NextRun]_vars /\ Fairness

\* ================================================================== claims
\* check_video_task of thread t has run to its end (it still holds the lock,
\* and the observers of the cycle are complete).
Ended(t) == pc[t] = "exit"

\* The cycle of t started in Tracking state and fetched a candidate whose id
\* differs from last_video_id.
TrackingNew(t) ==
    /\ Ended(t)
    /\ entry[t].initialized
    /\ resp[t] = "ok"
    /\ cand[t].id # entry[t].last_video_id

\* The cycle of t changed neither the in-memory state nor the file (the file
\* is compared unless the shutdown handler wrote it under the cycle).
Untouched(t) ==
    /\ state = entry[t]
    /\ nmut[t] = 0
    /\ nsave[t] = 0
    /\ ~dirty => file = fentry[t]

\* C1: commit on success only.  A Tracking cycle with a new candidate whose
\* send_alert returned False leaves last_video_id as it was, in memory and
\* in the file; one whose send_alert returned True (a later cycle for the
\* same candidate included) sets last_video_id to the candidate's id with
\* exactly one assignment and one save_state.
C1_CommitOnSuccessOnly ==
    \A t \in Threads :
        TrackingNew(t) =>
            /\ nsend[t] = 1
            /\ sendres[t] = "fail" => Untouched(t)
            /\ sendres[t] = "ok" =>
                  /\ state = MkState(cand[t].id, TRUE)
                  /\ nmut[t] = 1
                  /\ nsave[t] = 1

\* A Tracking cycle has ended after a send that worked, for a candidate
\* whose send had failed in an earlier cycle.
C1_Witness ==
    \E t \in Threads :
        TrackingNew(t) /\ sendres[t] = "ok" /\ lastFailed = cand[t].id

\* C2: cold-start baseline.  A cycle that starts from {None, False} and
\* fetches a candidate that is not stale ends with the state {C.id, True},
\* has called save_state once (the file holds that state when the save
\* succeeded) and has not called send_alert.
C2_ColdStartBaseline ==
    \A t \in Threads :
        (Ended(t) /\ entry[t] = DefaultState /\ resp[t] = "ok"
            /\ ~cand[t].stale) =>
            /\ state = MkState(cand[t].id, TRUE)
            /\ nsend[t] = 0
            /\ sendres[t] = "none"
            /\ nmut[t] = 1
            /\ nsave[t] = 1
            /\ (saveres[t] = "ok" /\ ~dirty) => file = ValidFile(state)

\* A cold-start cycle has ended with a fresh candidate and a save that worked.
C2_Witness ==
    \E t \in Threads :
        /\ Ended(t) /\ entry[t] = DefaultState /\ resp[t] = "ok"
        /\ ~cand[t].stale /\ saveres[t] = "ok"

\* C3: idempotence on duplicates.  A Tracking cycle whose candidate is
\* last_video_id sends nothing, leaves the state as it was and does not
\* write the file (so any number of such cycles in a row does the same).
C3_DuplicateIdempotent ==
    \A t \in Threads :
        (Ended(t) /\ entry[t].initialized /\ resp[t] = "ok"
            /\ cand[t].id = entry[t].last_video_id) =>
            /\ Untouched(t)
            /\ nsend[t] = 0

\* A Tracking cycle has ended on a candidate equal to last_video_id.
C3_Witness ==
    \E t \in Threads :
        /\ Ended(t) /\ entry[t].initialized /\ resp[t] = "ok"
        /\ cand[t].id = entry[t].last_video_id

\* C4: staleness gate.  A cycle whose candidate is older than the staleness
\* threshold changes no state and sends no alert, in ColdStart and in
\* Tracking.
C4_StalenessGate ==
    \A t \in Threads :
        (Ended(t) /\ resp[t] = "ok" /\ cand[t].stale) =>
            /\ state = entry[t]
            /\ nmut[t] = 0
            /\ nsave[t] = 0
            /\ nsend[t] = 0

\* C5: a failed fetch is a no-op.  When get_latest_video returned None, no
\* items, or an item without the expected fields, the cycle ends with the
\* state and the file as they were and without a send_alert call.
C5_FetchFailureNoOp ==
    \A t \in Threads :
        (Ended(t) /\ resp[t] \in {"none", "empty", "malformed"}) =>
            /\ Untouched(t)
            /\ nsend[t] = 0
            /\ sendres[t] = "none"

\* Cycles have ended on each of the three kinds of failed fetch; the one
\* shown is the malformed item in a cold start.
C5_Witness ==
    \E t \in Threads :
        Ended(t) /\ resp[t] = "malformed" /\ ~entry[t].initialized

\* C6: exactly-once relay.  No video is alerted more than once, and when a
\* cycle moves last_video_id forward, no video on the channel between the
\* old and the new last_video_id is left without its alert.
C6_ExactlyOnceRelay ==
    /\ \A i \in Ids : alerts[i] <= 1
    /\ \A t \in Threads :
          (pc[t] \in {"save_open", "save_write", "exit"} /\ sendres[t] = "ok") =>
              ~ \E i \in live :
                    /\ entry[t].last_video_id < i
                    /\ i < state.last_video_id
                    /\ alerts[i] = 0

\* C7: no re-announcement across restarts.  send_alert never returns True for
\* an id that was alerted before a restart and has been the newest item
\* ever since.
C7_NoReannounceAfterRestart ==
    \A t \in Threads :
        ~ (/\ pc[t] = "commit"
           /\ announced.restarted
           /\ announced.id = cand[t].id)

\* C8: cycle exclusivity.  At most one execution of check_video_task is
\* inside the locked section, it is the lock's holder, and until it writes
\* the state itself, the state is the one it found when it took the lock.
C8_CycleExclusivity ==
    \A t \in Threads :
        pc[t] \in Locked =>
            /\ lock = t
            /\ \A u \in Threads \ {t} : pc[u] \notin Locked
            /\ nmut[t] = 0 => state = entry[t]

\* One execution is inside the locked section while the other waits for the
\* lock.
C8_Witness ==
    \E t \in Threads : \E u \in Threads \ {t} :
        pc[t] \in Locked /\ pc[u] = "acquire"

\* C9: the shutdown flush is under the same exclusion: save_state of
\* graceful_shutdown never runs while a check_video_task execution is inside
\* its locked section.
C9_FlushExcluded ==
    hpc \in {"save_open", "save_write"} =>
        \A t \in Threads : pc[t] \notin Locked

\* C10: ticks are dropped, never queued: no execution started by a tick
\* waits on the lock while another execution holds it.
C10_TicksNeverQueued ==
    ~ (pc["job"] = "acquire" /\ lock # "none")


\* ------------------------------------------------------------------ C11
\* The priming call of create_app has come to its end in this run: the main
\* thread is past line 223.
Primed == proc = "up" /\ pc["main"] = "serving"

\* C11: the priming cycle completes before the first scheduled cycle starts:
\* a scheduled cycle is never inside the `with lock:` block while the priming
\* call of this run has not come to its end.
C11_PrimingFirst ==
    (proc = "up" /\ pc["job"] \in Locked) => Primed

\* ------------------------------------------------------------------ C12
\* The flush of graceful_shutdown (line 211) has been done in this run: a
\* handler has shut the scheduler down and has gone past its save_state.
Flushed ==
    proc = "up" /\ sched = "stopped" /\ hpc \in {"none", "shutdown"}

\* C12: the flush of graceful_shutdown comes after every cycle: once it is
\* done no cycle is in flight or waiting, so that no cycle mutates or saves
\* the state after it.
C12_FlushIsLast ==
    Flushed => \A t \in Threads : pc[t] \notin InCycle


\* ------------------------------------------------------------------ C13
\* C13: loading the state never fails: whatever the file is (missing, not
\* valid JSON, unreadable, missing while the default record cannot be
\* written), StateManager() returns, so that no start of the process ends in
\* an exception of _load_state.
C13_LoadNeverFails == proc # "failed"


\* ------------------------------------------------------------------ C14
\* C14: durable save.  Once save_state of a cycle has returned without error
\* a restart loads exactly the state it saved; and at every moment inside
\* save_state a crash leaves a file that a restart loads as the state before
\* the cycle or as the new state, never as anything else (the default
\* cold-start state in particular).
C14_DurableSave ==
    \A t \in Threads :
        /\ (Ended(t) /\ saveres[t] = "ok" /\ ~dirty) => LoadState(file) = state
        /\ (pc[t] = "save_write" /\ ~dirty)
              => LoadState(file) \in {LoadState(fentry[t]), state}


\* ------------------------------------------------------------------ C15
\* The initialized flag a start would load from the file.
FileInitialized(f) == LoadState(f).initialized

\* C15: within one process run initialized never goes back from true to
\* false, neither in memory nor in the state file.
C15_InitializedMonotone ==
    [][(proc = "up" /\ proc' = "up")
          => /\ state.initialized => state'.initialized
             /\ FileInitialized(file) => FileInitialized(file')]_vars


\* ------------------------------------------------------------------ C16
\* C16: within a run every step that changes the in-memory last_video_id is
\* (a) the initializing cycle adopting its candidate's id, or (b) a Tracking
\* cycle whose send_alert returned True for the candidate, setting
\* last_video_id to that candidate's id.  No other step (a failed fetch, a
\* duplicate, a failed send, a health check, the shutdown flush, a save)
\* changes it.
C16_OnlyTwoWriters ==
    [][(proc = "up" /\ proc' = "up"
          /\ state'.last_video_id # state.last_video_id)
       => \E t \in Threads :
             \/ /\ pc[t] = "init"
                /\ ~state.initialized
                /\ resp[t] = "ok"
                /\ state' = MkState(cand[t].id, TRUE)
             \/ /\ pc[t] = "commit"
                /\ state.initialized
                /\ sendres[t] = "ok"
                /\ state' = MkState(cand[t].id, TRUE)]_vars

\* Both writers have acted: a cycle is past its assignment, one by adoption
\* and one by a successful alert.
C16_Witness ==
    /\ pc["main"] = "serving"
    /\ pc["job"] = "save_open"
    /\ nmut["job"] = 1
    /\ sendres["job"] = "ok"
    /\ state.last_video_id = cand["job"].id
    /\ entry["job"].initialized
    /\ entry["job"].last_video_id \notin {None, cand["job"].id}


\* ------------------------------------------------------------------ C17
\* C17: persist after every mutation.  Whenever no check_video_task holds the
\* lock, no save_state has failed since the state was loaded and no
\* save_state is in the middle of its write, the record in the state file
\* equals the in-memory state.
C17_FileEqualsMemory ==
    (proc = "up" /\ lock = "none" /\ ~savefailed /\ hpc # "save_write")
        => file = ValidFile(state)


\* ------------------------------------------------------------------ C18
\* The cycle of t mutated the state and its save_state failed.
SaveFailed(t) ==
    /\ Ended(t)
    /\ nmut[t] = 1
    /\ saveres[t] \in {"open_failed", "write_failed"}

\* C18: a failed save is not fatal and not rolled back.  A cycle whose
\* save_state failed still comes to its end, the in-memory state keeps the
\* new value (the candidate's id, initialized) and the state file keeps the
\* record it held when the cycle started.
C18_SaveFailureKept ==
    \A t \in Threads :
        (SaveFailed(t) /\ ~dirty)
            => /\ state = MkState(cand[t].id, TRUE)
               /\ file = fentry[t]


\* ------------------------------------------------------------------ C19
\* The cycle of t has committed candidate c after one send_alert that
\* returned True.
SentOnce(t, c) ==
    /\ pc[t] \in {"save_open", "save_write", "exit"}
    /\ cand[t].id = c
    /\ sendres[t] = "ok"
    /\ nsend[t] = 1
    /\ state.last_video_id = c

\* Ticks have stopped or c is no longer the newest: the process is not
\* running, the scheduler is not running, or the channel has changed.
RetryOver(c) == proc # "up" \/ sched # "running" \/ live = {} \/ Newest # c

\* C19: retry by the next cycle.  After a send for candidate c has failed,
\* every cycle that fetches c while it remains the newest calls send_alert
\* for it exactly once; and with fair ticks, and a fetch and a send that
\* succeed in the end, a cycle commits c after exactly one send_alert that
\* returned True (unless the ticks stop or c stops being the newest).
C19_RetryUntilSent ==
    /\ [](\A t \in Threads :
            (Ended(t) /\ resp[t] = "ok" /\ lastFailed # None
                /\ cand[t].id = lastFailed) => nsend[t] = 1)
    /\ \A c \in Ids :
          (lastFailed = c) ~> ((\E t \in Threads : SentOnce(t, c)) \/ RetryOver(c))

\* A cycle has committed a candidate whose send had failed in an earlier
\* cycle of this run.
C19_Witness ==
    \E t \in Threads :
        /\ SentOnce(t, lastFailed)
        /\ lastFailed # None
        /\ entry[t].initialized
        /\ sched = "running"


\* ------------------------------------------------------------------ C20
\* C20: shutdown terminates.  While graceful_shutdown is running it is never
\* stuck: either the handler itself can take its next step, or the scheduled
\* job it waits for can take one (the main thread runs the handler and takes
\* no step of its own until the handler returns).
C20_ShutdownProceeds ==
    (proc = "up" /\ hpc # "none")
        => ENABLED (HandlerStep \/ CycleStep("job"))

============================================================================
